---- MODULE Spec2Model ----
(***************************************************************************)
(* Model of app7.py, a Streamlit dashboard.  Streamlit executes the whole  *)
(* script top to bottom once when a session starts and once more for every *)
(* widget interaction; one action of this model is one such script run.    *)
(* The state is the widget state kept by Streamlit between runs, the       *)
(* environment met by the last run, and what that run put on the screen.   *)
(***************************************************************************)
EXTENDS FiniteSets, Integers, Sequences, TLC

\* ---------------------------------------------------------------- bounds
MaxRows == 2     \* rows of a generated dataset

\* ------------------------------------------------------------- utilities
Range(f) == {f[i] : i \in DOMAIN f}

RECURSIVE SumTo(_, _)
SumTo(f, n) == IF n = 0 THEN 0 ELSE f[n] + SumTo(f, n - 1)

\* boolean indexing s[mask]: among the first n elements of s, those whose
\* mask is true, in order
RECURSIVE BoolIndex(_, _, _)
BoolIndex(s, mask, n) ==
    IF n = 0 THEN <<>>
    ELSE IF mask[n] THEN Append(BoolIndex(s, mask, n - 1), s[n])
         ELSE BoolIndex(s, mask, n - 1)

\* nearest integer to num/den (den > 0), ties to even, as Python's round()
\* and the .2f format do on an exactly representable value
RoundHalfEven(num, den) ==
    LET q == num \div den
        r == num % den
    IN  IF 2 * r < den THEN q
        ELSE IF 2 * r > den THEN q + 1
        ELSE IF q % 2 = 0 THEN q ELSE q + 1

\* ------------------------------------------------------- dataframe cells
Num(n) == [k |-> "num", n |-> n, s |-> ""]
Str(s) == [k |-> "str", n |-> 0, s |-> s]
NaN    == [k |-> "nan", n |-> 0, s |-> ""]

\* pandas: NaN == 'x' is False, so a null cell never matches
CellEqStr(c, s) == c.k = "str" /\ c.s = s

\* ---------------------------------------------------- datasets (the CSV)
FullCols      == <<"No", "station", "PM2.5", "PM10", "SO2", "NO2", "wd">>
NoStationCols == <<"No", "PM2.5", "PM10", "SO2", "NO2", "wd">>
NoPMCols      == <<"No", "station", "PM10", "SO2", "NO2", "wd">>
TextCols      == <<"station", "wd">>
Layouts       == {FullCols, NoStationCols, NoPMCols, TextCols}

MkRow(cols, no, st, pm) ==
    [c \in Range(cols) |->
        CASE c = "No"      -> Num(no)
          [] c = "station" -> st
          [] c = "PM2.5"   -> pm
          [] c = "PM10"    -> Num(50)
          [] c = "SO2"     -> Num(10)
          [] c = "NO2"     -> Num(20)
          [] OTHER         -> Str("NW")]

\* a dataset: its header and its rows; spec is a sequence of
\* <<station cell, PM2.5 cell>> pairs
MkDataset(cols, spec) ==
    [columns |-> cols,
     rows    |-> [i \in 1..Len(spec) |-> MkRow(cols, i, spec[i][1], spec[i][2])]]

StationCells == {Str("Dongsi"), Str("Changping"), Str("Gucheng"), NaN}
PMCells      == {Num(35), NaN}
RowSpecs     == StationCells \X PMCells

GenDatasets ==
    {MkDataset(cols, spec) :
        cols \in Layouts,
        spec \in UNION {[1..n -> RowSpecs] : n \in 0..MaxRows}}

DS_typical ==
    MkDataset(FullCols, <<<<Str("Dongsi"), Num(35)>>, <<Str("Changping"), NaN>>,
                          <<Str("Dongsi"), NaN>>, <<Str("Gucheng"), Num(35)>>>>)
DS_nostation ==
    MkDataset(NoStationCols, <<<<NaN, Num(35)>>, <<NaN, NaN>>>>)
DS_emptystation ==
    MkDataset(FullCols, <<<<NaN, Num(35)>>, <<NaN, NaN>>>>)
DS_nopm ==
    MkDataset(NoPMCols, <<<<Str("Dongsi"), NaN>>, <<Str("Huairou"), NaN>>>>)
\* more than 20 rows of one station, so that head(20) truncates
DS_long ==
    MkDataset(FullCols,
        [i \in 1..23 |-> IF i = 5 THEN <<Str("Huairou"), NaN>>
                         ELSE IF i = 22 THEN <<Str("Aotizhongxin"), NaN>>
                         ELSE <<Str("Aotizhongxin"), Num(35)>>])

SessionDatasets == {DS_typical, DS_nostation, DS_emptystation, DS_nopm, DS_long}
DataDatasets    == GenDatasets \cup {DS_long}

\* ------------------------------------------------------------ the script
CsvFile    == "data/merged_data.csv"
ModelFile  == "model_rf.pkl"
ScalerFile == "scaler.pkl"

\* What the environment may make raise in one run: one of the three loads,
\* one of the three image files, the plotting library, the scaler's
\* transform or the model's predict.  The files are read again by every run,
\* so the fault is chosen anew for each run; the content of a file that
\* loads is the same in every run of a session.
LoadFaults  == {"csv", "model", "scaler"}
ImageFaults == {"banner", "overview", "health"}
PredFaults  == {"transform", "predict"}
Faults      == {"none", "plot"} \cup LoadFaults \cup ImageFaults \cup PredFaults

stations == <<"Dongsi", "Changping", "Huairou", "Aotizhongxin">>

ChartTypes      == <<"PM2.5 Distribution", "Correlation Heatmap", "Pairplot">>
PairplotDefault == {"PM2.5", "PM10", "SO2", "NO2"}
PairplotWarn    == 5
HeadRows        == 20

\* the twelve sliders in declaration order; CO is a float slider with step
\* 0.01 and is kept in hundredths of mg/m3 (0.0, 5.0, 1.0 -> 0, 500, 100)
SliderDecl ==
    << [var |-> "pm10",  min |-> 0,   max |-> 1000, value |-> 100],
       [var |-> "so2",   min |-> 0,   max |-> 500,  value |-> 15],
       [var |-> "no2",   min |-> 0,   max |-> 500,  value |-> 20],
       [var |-> "co",    min |-> 0,   max |-> 500,  value |-> 100],
       [var |-> "o3",    min |-> 0,   max |-> 500,  value |-> 30],
       [var |-> "wspd",  min |-> 0,   max |-> 20,   value |-> 5],
       [var |-> "rain",  min |-> 0,   max |-> 10,   value |-> 0],
       [var |-> "temp",  min |-> -20, max |-> 40,   value |-> 15],
       [var |-> "dewp",  min |-> -20, max |-> 40,   value |-> 5],
       [var |-> "pre",   min |-> 900, max |-> 1100, value |-> 1010],
       [var |-> "month", min |-> 1,   max |-> 12,   value |-> 6],
       [var |-> "hour",  min |-> 0,   max |-> 23,   value |-> 12] >>

SliderVars     == {SliderDecl[i].var : i \in DOMAIN SliderDecl}
DeclOf(v)      == SliderDecl[CHOOSE i \in DOMAIN SliderDecl : SliderDecl[i].var = v]
SliderDefaults == [v \in SliderVars |-> DeclOf(v).value]

\* month and pressure change places
InputData_Swapped(sl) ==
    << << sl["pm10"], sl["so2"], sl["no2"], sl["co"], sl["o3"], sl["wspd"],
          sl["rain"], sl["temp"], sl["dewp"], sl["month"], sl["pre"], sl["hour"] >> >>

\* input_data = [[pm10, so2, no2, co, o3, wspd, rain, temp, dewp, pre, month, hour]]
InputData(sl) ==
    << << sl["pm10"], sl["so2"], sl["no2"], sl["co"], sl["o3"], sl["wspd"],
          sl["rain"], sl["temp"], sl["dewp"], sl["pre"], sl["month"], sl["hour"] >> >>

TableColumns ==
    <<"PM10", "SO2", "NO2", "CO", "O3", "WSPM",
      "RAIN", "TEMP", "DEWP", "PRES", "month", "hour">>

\* The two artifacts are opaque pickles.  They stand here as one fixed
\* scaler (x - mean, unit scale) and one fixed regressor (a weighted sum, in
\* thousandths of ug/m3): deterministic functions of their argument.
ScalerMean   == <<100, 15, 20, 100, 30, 5, 0, 15, 5, 1010, 6, 12>>
ModelWeights == <<700, 55, 130, 9, -45, -610, -333, 77, 41, -12, 5, 3>>
ModelBase    == 61337

ScalerTransform(X) == [i \in 1..Len(X) |-> [j \in 1..Len(X[i]) |-> X[i][j] - ScalerMean[j]]]
ModelPredict(Z) ==
    [i \in 1..Len(Z) |->
        ModelBase + SumTo([j \in 1..Len(Z[i]) |-> ModelWeights[j] * Z[i][j]], Len(Z[i]))]

\* f"{prediction[0]:.2f}": thousandths shown to two decimals (hundredths)
Format2f(p) == RoundHalfEven(p, 10)

\* keeps the rows of the other stations
Filter_Negated(ds, st) ==
    LET mask == [i \in DOMAIN ds.rows |-> ~CellEqStr(ds.rows[i]["station"], st)]
    IN  BoolIndex(ds.rows, mask, Len(ds.rows))

\* df[df['station'] == selected_station]
Filter(ds, st) ==
    LET mask == [i \in DOMAIN ds.rows |-> CellEqStr(ds.rows[i]["station"], st)]
    IN  BoolIndex(ds.rows, mask, Len(ds.rows))

\* a column's dtype is numeric unless it holds a string
IsNumericCol(ds, c) == \A i \in DOMAIN ds.rows : ds.rows[i][c].k # "str"
NumericCols(ds)     == {c \in Range(ds.columns) : IsNumericCol(ds, c)}

NullCount(rows, c) == Cardinality({i \in DOMAIN rows : rows[i][c].k = "nan"})

\* round(filtered_df.isnull().mean().mean() * 100, 2), in hundredths of a
\* percent; the mean of no rows is NaN, shown as "nan%"
NaNPct == -1
MissingPct(cols, rows) ==
    IF Len(rows) = 0 THEN NaNPct
    ELSE RoundHalfEven(
            10000 * SumTo([i \in 1..Len(cols) |-> NullCount(rows, cols[i])], Len(cols)),
            Len(rows) * Len(cols))

\* filtered_df.head(20)
HeadN(rows) == SubSeq(rows, 1, IF Len(rows) < HeadRows THEN Len(rows) ELSE HeadRows)

\* missing[missing > 0]: the columns with nulls and their counts, in order
MissingValues(cols, rows) ==
    LET all  == [i \in 1..Len(cols) |-> <<cols[i], NullCount(rows, cols[i])>>]
        mask == [i \in 1..Len(cols) |-> all[i][2] > 0]
    IN  BoolIndex(all, mask, Len(cols))

\* what one run has produced so far
Blank ==
    [halted |-> FALSE, raised |-> "none", read_files |-> {}, screen |-> {},
     filtered_df |-> <<>>, metrics |-> <<>>, sample |-> <<>>, missing |-> <<>>,
     input_data |-> <<>>, prediction |-> <<>>, table |-> <<>>]

\* an exception nobody catches: Streamlit shows it and ends the run
Uncaught(r, what) ==
    [r EXCEPT !.halted = TRUE, !.raised = what, !.screen = @ \cup {"exception"}]

\* reports a failed load but lacks st.stop()
Load_NoStop(fault) ==
    LET r == [Blank EXCEPT !.read_files =
                 IF fault = "csv" THEN {CsvFile}
                 ELSE IF fault = "model" THEN {CsvFile, ModelFile}
                 ELSE {CsvFile, ModelFile, ScalerFile}]
    IN  IF fault \in LoadFaults
        THEN [r EXCEPT !.raised = fault, !.screen = {"load_error"}]
        ELSE r

\* lines 8-14: the three loads inside one try; on any exception st.error
\* and st.stop
Load(fault) ==
    LET r == [Blank EXCEPT !.read_files =
                 IF fault = "csv" THEN {CsvFile}
                 ELSE IF fault = "model" THEN {CsvFile, ModelFile}
                 ELSE {CsvFile, ModelFile, ScalerFile}]
    IN  IF fault \in LoadFaults
        THEN [r EXCEPT !.halted = TRUE, !.raised = fault, !.screen = {"load_error"}]
        ELSE r

\* looks for a column named 'Station'
StationCheck_WrongName(r, ds) ==
    IF r.halted THEN r
    ELSE IF "Station" \notin Range(ds.columns)
         THEN [r EXCEPT !.halted = TRUE, !.screen = {"station_error"}]
         ELSE r

\* lines 17-19
StationCheck(r, ds) ==
    IF r.halted THEN r
    ELSE IF "station" \notin Range(ds.columns)
         THEN [r EXCEPT !.halted = TRUE, !.screen = {"station_error"}]
         ELSE r

\* lines 22-35: page config, selectbox, the filter, the four tabs
Sidebar(r, ds, st) ==
    IF r.halted THEN r
    ELSE [r EXCEPT !.screen = @ \cup {"selector", "tabs"},
                   !.filtered_df = Filter(ds, st)]

\* lines 38-75
Tab1(r, fault) ==
    IF r.halted THEN r
    ELSE IF fault = "banner" THEN Uncaught(r, fault)
    ELSE [r EXCEPT !.screen = @ \cup {"home"}]

\* summarises df instead of filtered_df
Tab2_FullDataset(r, ds, fault) ==
    IF r.halted THEN r
    ELSE IF fault = "overview" THEN Uncaught(r, fault)
    ELSE LET fdf == ds.rows
             mv  == MissingValues(ds.columns, fdf)
         IN  [r EXCEPT !.metrics = <<Len(fdf), Len(ds.columns),
                                     MissingPct(ds.columns, fdf)>>,
                       !.sample  = HeadN(fdf),
                       !.missing = mv,
                       !.screen  = @ \cup {"summary"}
                                     \cup (IF mv = <<>> THEN {"no_missing"} ELSE {})]

\* lines 78-96
Tab2(r, ds, fault) ==
    IF r.halted THEN r
    ELSE IF fault = "overview" THEN Uncaught(r, fault)
    ELSE LET fdf == r.filtered_df
             mv  == MissingValues(ds.columns, fdf)
         IN  [r EXCEPT !.metrics = <<Len(fdf), Len(ds.columns),
                                     MissingPct(ds.columns, fdf)>>,
                       !.sample  = HeadN(fdf),
                       !.missing = mv,
                       !.screen  = @ \cup {"summary"}
                                     \cup (IF mv = <<>> THEN {"no_missing"} ELSE {})]

\* lines 99-139
Tab3(r, ds, ct, cols, fault) ==
    IF r.halted THEN r
    ELSE IF fault = "overview" THEN Uncaught(r, fault)
    ELSE
      LET r1 == [r EXCEPT !.screen = @ \cup {"chart_select"}]
      IN  CASE ct = "PM2.5 Distribution" ->
                 IF "PM2.5" \notin Range(ds.columns) \/ fault = "plot"
                 THEN Uncaught(r1, "chart")
                 ELSE [r1 EXCEPT !.screen = @ \cup {"chart"}]
            [] ct = "Correlation Heatmap" ->
                 IF NumericCols(ds) = {} \/ fault = "plot"
                 THEN Uncaught(r1, "chart")
                 ELSE [r1 EXCEPT !.screen = @ \cup {"chart"}]
            [] OTHER ->
                 \* st.multiselect raises when a default is not an option
                 IF ~(PairplotDefault \subseteq Range(ds.columns))
                 THEN Uncaught(r1, "multiselect")
                 ELSE
                   LET r2 == [r1 EXCEPT !.screen = @ \cup {"cols_select"}]
                       r3 == IF Cardinality(cols) > PairplotWarn
                             THEN [r2 EXCEPT !.screen = @ \cup {"chart_warning"}]
                             ELSE r2
                   IN  IF cols = {} THEN r2
                       ELSE IF cols \cap NumericCols(ds) = {} \/ fault = "plot"
                            THEN [r3 EXCEPT !.raised = "chart",
                                            !.screen = @ \cup {"chart_error"}]
                            ELSE [r3 EXCEPT !.screen = @ \cup {"chart"}]

\* the prediction block without its try/except
Tab4_NoCatch(r, st, sl, submit, fault) ==
    IF r.halted THEN r
    ELSE IF fault = "health" THEN Uncaught(r, fault)
    ELSE
      LET r1 == [r EXCEPT !.screen = @ \cup {"form"}]
      IN  IF ~submit THEN r1
          ELSE
            LET r2 == [r1 EXCEPT !.input_data = InputData(sl)]
            IN  IF fault \in PredFaults
                THEN Uncaught(r2, fault)
                ELSE
                  LET input_scaled == ScalerTransform(r2.input_data)
                      pred         == ModelPredict(input_scaled)
                  IN  [r2 EXCEPT !.prediction = <<Format2f(pred[1])>>,
                                 !.table = <<TableColumns, r2.input_data[1]>>,
                                 !.screen = @ \cup {"prediction", "input_table"}]

\* the prediction block run whether or not the button was pressed
Tab4_AlwaysSubmitted(r, st, sl, submit, fault) ==
    IF r.halted THEN r
    ELSE IF fault = "health" THEN Uncaught(r, fault)
    ELSE
      LET r2 == [r EXCEPT !.screen = @ \cup {"form"}, !.input_data = InputData(sl)]
      IN  IF fault \in PredFaults
          THEN [r2 EXCEPT !.raised = fault,
                          !.screen = @ \cup {"prediction_error"}]
          ELSE
            LET input_scaled == ScalerTransform(r2.input_data)
                pred         == ModelPredict(input_scaled)
            IN  [r2 EXCEPT !.prediction = <<Format2f(pred[1])>>,
                           !.table = <<TableColumns, r2.input_data[1]>>,
                           !.screen = @ \cup {"prediction", "input_table"}]

\* the selected station fed to the model as one more feature
Tab4_StationFeature(r, st, sl, submit, fault) ==
    IF r.halted THEN r
    ELSE IF fault = "health" THEN Uncaught(r, fault)
    ELSE
      LET r1 == [r EXCEPT !.screen = @ \cup {"form"}]
      IN  IF ~submit THEN r1
          ELSE
            LET r2 == [r1 EXCEPT !.input_data = InputData(sl)]
                code == CHOOSE i \in DOMAIN stations : stations[i] = st
            IN  IF fault \in PredFaults
                THEN [r2 EXCEPT !.raised = fault,
                                !.screen = @ \cup {"prediction_error"}]
                ELSE
                  LET input_scaled == ScalerTransform(r2.input_data)
                      pred         == ModelPredict(input_scaled)
                  IN  [r2 EXCEPT !.prediction = <<Format2f(pred[1] + 1000 * code)>>,
                                 !.table = <<TableColumns, r2.input_data[1]>>,
                                 !.screen = @ \cup {"prediction", "input_table"}]

\* lines 142-184
Tab4(r, st, sl, submit, fault) ==
    IF r.halted THEN r
    ELSE IF fault = "health" THEN Uncaught(r, fault)
    ELSE
      LET r1 == [r EXCEPT !.screen = @ \cup {"form"}]
      IN  IF ~submit THEN r1
          ELSE
            LET r2 == [r1 EXCEPT !.input_data = InputData(sl)]
            IN  IF fault \in PredFaults
                THEN [r2 EXCEPT !.raised = fault,
                                !.screen = @ \cup {"prediction_error"}]
                ELSE
                  LET input_scaled == ScalerTransform(r2.input_data)
                      pred         == ModelPredict(input_scaled)
                  IN  [r2 EXCEPT !.prediction = <<Format2f(pred[1])>>,
                                 !.table = <<TableColumns, r2.input_data[1]>>,
                                 !.screen = @ \cup {"prediction", "input_table"}]

\* one execution of the script, top to bottom
Script(ds, st, ct, cols, sl, submit, fault) ==
    Tab4(Tab3(Tab2(Tab1(Sidebar(StationCheck(Load(fault), ds), ds, st), fault),
                   ds, fault), ds, ct, cols, fault),
         st, sl, submit, fault)

\* ------------------------------------------------------------- the state
VARIABLES
    dataset,           \* the content of data/merged_data.csv
    selected_station,  \* widget state kept between runs
    chart_type,
    selected_cols,
    sliders,
    trigger,           \* what caused the last run ("none": not started)
    raised,            \* what raised in the last run
    read_files,        \* the files the last run read
    screen,            \* the elements the last run rendered
    filtered_df,
    metrics,           \* <<rows, columns, missing %>> of the summary view
    sample,
    missing,
    input_data,
    prediction,
    table,
    remembered         \* history: one earlier displayed prediction

vars == <<dataset, selected_station, chart_type, selected_cols, sliders, trigger,
          raised, read_files, screen, filtered_df, metrics, sample, missing,
          input_data, prediction, table, remembered>>

Interactions == {"rerun", "station", "chart", "cols", "submit"}

\* the column sets offered to the pairplot multiselect
ColChoices(ds) ==
    {{}, PairplotDefault, {"wd"}, {"PM2.5", "wd"}, Range(ds.columns)}
        \cap SUBSET Range(ds.columns)

\* the slider positions a user tries to set: every slider just below its
\* minimum, at its minimum, at its default, at its maximum, just above its
\* maximum, or minimum and maximum alternating in declaration order
SettingKinds == {"below", "min", "default", "max", "above", "mixed"}
SliderSetting(kind) ==
    [v \in SliderVars |->
        LET d == DeclOf(v)
            i == CHOOSE j \in DOMAIN SliderDecl : SliderDecl[j].var = v
        IN  CASE kind = "below"   -> d.min - 1
              [] kind = "min"     -> d.min
              [] kind = "default" -> d.value
              [] kind = "max"     -> d.max
              [] kind = "above"   -> d.max + 1
              [] OTHER            -> IF i % 2 = 1 THEN d.min ELSE d.max]
SliderSettings == {SliderSetting(kind) : kind \in SettingKinds}

\* st.slider(label, min, max, value): the widget only takes values in [min, max]
SliderAccepts(sl) ==
    \A v \in SliderVars : DeclOf(v).min <= sl[v] /\ sl[v] <= DeclOf(v).max

InitWith(DS) ==
    /\ dataset \in DS
    /\ selected_station = stations[1]
    /\ chart_type = ChartTypes[1]
    /\ selected_cols = PairplotDefault
    /\ sliders = SliderDefaults
    /\ trigger = "none"
    /\ raised = "none"
    /\ read_files = {}
    /\ screen = {}
    /\ filtered_df = <<>>
    /\ metrics = <<>>
    /\ sample = <<>>
    /\ missing = <<>>
    /\ input_data = <<>>
    /\ prediction = <<>>
    /\ table = <<>>
    /\ remembered = <<>>

\* One script run caused by t with the widget values st, ct, cols, sl, in an
\* environment where the call named by fault raises.  Streamlit keeps the
\* widget values between runs; after a run that reached its end it drops
\* the value of a widget the run did not render (the multiselect of
\* another chart kind), which then comes back with its default.
RunScript(t, st, ct, cols, sl, fault, remember) ==
    \E r \in {Script(dataset, st, ct, cols, sl, t = "submit", fault)} :
        /\ trigger' = t
        /\ raised' = r.raised
        /\ read_files' = r.read_files
        /\ screen' = r.screen
        /\ filtered_df' = r.filtered_df
        /\ metrics' = r.metrics
        /\ sample' = r.sample
        /\ missing' = r.missing
        /\ input_data' = r.input_data
        /\ prediction' = r.prediction
        /\ table' = r.table
        /\ selected_station' = st
        /\ chart_type' = ct
        /\ selected_cols' = IF r.halted \/ "cols_select" \in r.screen
                            THEN cols ELSE PairplotDefault
        /\ sliders' = sl
        /\ remembered' = IF remember /\ remembered = <<>> /\ r.prediction # <<>>
                         THEN <<r.input_data[1], r.prediction[1], st>>
                         ELSE remembered
        /\ UNCHANGED dataset

Start(FS) ==
    /\ trigger = "none"
    /\ \E fault \in FS :
          RunScript("start", selected_station, chart_type, selected_cols, sliders, fault, FALSE)

Rerun(FS) ==
    /\ trigger # "none"
    /\ \E fault \in FS :
          RunScript("rerun", selected_station, chart_type, selected_cols, sliders, fault, FALSE)

ChangeStation(FS) ==
    /\ "selector" \in screen
    /\ \E st \in Range(stations) \ {selected_station}, fault \in FS :
          RunScript("station", st, chart_type, selected_cols, sliders, fault, FALSE)

ChangeChart(FS) ==
    /\ "chart_select" \in screen
    /\ \E ct \in Range(ChartTypes) \ {chart_type}, fault \in FS :
          RunScript("chart", selected_station, ct, PairplotDefault, sliders, fault, FALSE)

ChangeCols(FS) ==
    /\ "cols_select" \in screen
    /\ \E cols \in ColChoices(dataset) \ {selected_cols}, fault \in FS :
          RunScript("cols", selected_station, chart_type, cols, sliders, fault, FALSE)

\* The sliders live inside st.form: moving them causes no run, and their
\* values reach the script in one batch with the submit button.
Submit(FS, RS) ==
    /\ "form" \in screen
    /\ \E sl \in SliderSettings, fault \in FS, remember \in RS :
          /\ SliderAccepts(sl)
          /\ RunScript("submit", selected_station, chart_type, selected_cols,
                       sl, fault, remember)

\* a session over one of a few datasets, with every fault
Init == InitWith(SessionDatasets)
Next ==
    \/ Start(Faults)
    \/ Rerun(Faults)
    \/ ChangeStation(Faults)
    \/ ChangeChart(Faults)
    \/ ChangeCols(Faults)
    \/ Submit(Faults, {FALSE})
Spec == Init /\ [][Next]_vars

\* the data views over every generated dataset, only the loads failing
DataFaults == {"none"} \cup LoadFaults
InitData == InitWith(DataDatasets)
NextData ==
    \/ Start(DataFaults)
    \/ ChangeStation(DataFaults)
    \/ ChangeChart(DataFaults)
    \/ ChangeCols(DataFaults)
SpecData == InitData /\ [][NextData]_vars

\* the prediction over one dataset, remembering one earlier result
InitPredict == InitWith({DS_typical})
NextPredict ==
    \/ Start({"none"})
    \/ ChangeStation({"none"})
    \/ ChangeChart({"none"})
    \/ ChangeCols({"none", "plot"})
    \/ Submit({"none", "transform", "predict"}, BOOLEAN)
SpecPredict == InitPredict /\ [][NextPredict]_vars

\* ------------------------------------------------------------ properties
StationColumn == "station" \in Range(dataset.columns)
Loaded        == trigger # "none" /\ raised \notin LoadFaults
Dashboard     == {"selector", "tabs", "home", "summary", "chart_select", "chart",
                  "cols_select", "form", "prediction", "input_table"}

\* the rows of the dataset whose station is the selected one, by position
MatchIdx ==
    {i \in DOMAIN dataset.rows :
        /\ dataset.rows[i]["station"].k = "str"
        /\ dataset.rows[i]["station"].s = selected_station}
NthOf(S, j)  == CHOOSE i \in S : Cardinality({x \in S : x < i}) = j - 1
MatchRows    == [j \in 1..Cardinality(MatchIdx) |-> dataset.rows[NthOf(MatchIdx, j)]]
MatchNulls(c) == Cardinality({i \in MatchIdx : dataset.rows[i][c].k = "nan"})
MatchNullTotal ==
    SumTo([i \in 1..Len(dataset.columns) |-> MatchNulls(dataset.columns[i])],
          Len(dataset.columns))

\* the features as the specification lists them: label, slider and range
\* (CO in hundredths)
Features ==
    << [label |-> "PM10",  var |-> "pm10",  lo |-> 0,   hi |-> 1000],
       [label |-> "SO2",   var |-> "so2",   lo |-> 0,   hi |-> 500],
       [label |-> "NO2",   var |-> "no2",   lo |-> 0,   hi |-> 500],
       [label |-> "CO",    var |-> "co",    lo |-> 0,   hi |-> 500],
       [label |-> "O3",    var |-> "o3",    lo |-> 0,   hi |-> 500],
       [label |-> "WSPM",  var |-> "wspd",  lo |-> 0,   hi |-> 20],
       [label |-> "RAIN",  var |-> "rain",  lo |-> 0,   hi |-> 10],
       [label |-> "TEMP",  var |-> "temp",  lo |-> -20, hi |-> 40],
       [label |-> "DEWP",  var |-> "dewp",  lo |-> -20, hi |-> 40],
       [label |-> "PRES",  var |-> "pre",   lo |-> 900, hi |-> 1100],
       [label |-> "month", var |-> "month", lo |-> 1,   hi |-> 12],
       [label |-> "hour",  var |-> "hour",  lo |-> 0,   hi |-> 23] >>

\* scaler then model on the sliders sl, as displayed
PredictionFor(sl) ==
    Format2f(ModelPredict(ScalerTransform(
        << [i \in 1..Len(Features) |-> sl[Features[i].var]] >>))[1])

FormState == IF "prediction" \in screen THEN "predicted" ELSE "idle"

\* C1: a run in which a load raises, or whose dataset has no station column,
\* shows only the error message: no selector, no tab, no view, no prediction.
C1_StartupFailureHalts ==
    /\ raised \in LoadFaults => screen = {"load_error"}
    /\ (Loaded /\ ~StationColumn) => screen = {"station_error"}
    /\ (raised \in LoadFaults \/ (Loaded /\ ~StationColumn)) =>
          /\ screen \cap Dashboard = {}
          /\ filtered_df = <<>> /\ metrics = <<>>
          /\ input_data = <<>> /\ prediction = <<>> /\ table = <<>>
C1_Witness ==
    trigger = "submit" /\ raised = "scaler" /\ screen = {"load_error"}

\* C2: the filtered record set is exactly the rows of the dataset whose
\* station equals the selected station, in order, empty when none matches.
C2_FilterExact ==
    (Loaded /\ StationColumn) =>
        /\ "selector" \in screen
        /\ filtered_df = MatchRows
        /\ \A j \in DOMAIN filtered_df :
              filtered_df[j]["station"] = Str(selected_station)
C2_Witness ==
    /\ trigger = "station"
    /\ Len(filtered_df) = 1
    /\ Len(dataset.rows) > 1
    /\ \E i \in DOMAIN dataset.rows : dataset.rows[i]["station"].k = "nan"

\* C3 (as claimed): whatever the chart kind, a failure while rendering the
\* chart is reported inline and the run goes on to the prediction form.
C3_ChartFailureCaught ==
    raised = "chart" =>
        /\ "chart_error" \in screen
        /\ "exception" \notin screen
        /\ "form" \in screen

\* C4: a submit in which the scaler or the model raises shows the inline
\* error, no value and no table, still renders the form, and a following
\* submit whose artifacts do not raise displays the prediction of its own
\* slider values.
C4_PredictionFailureInline ==
    [][ /\ raised' \in PredFaults =>
            /\ trigger' = "submit"
            /\ "prediction_error" \in screen'
            /\ "exception" \notin screen'
            /\ "form" \in screen'
            /\ screen' \cap {"prediction", "input_table"} = {}
            /\ prediction' = <<>> /\ table' = <<>>
        /\ (raised \in PredFaults /\ trigger' = "submit" /\ raised' = "none") =>
            /\ "prediction" \in screen'
            /\ prediction' = <<PredictionFor(sliders')>>
      ]_vars
C4_Witness ==
    /\ raised = "transform"
    /\ "prediction_error" \in screen
    /\ sliders = SliderSetting("max")

\* C5 (as claimed): the form changes state only on a submit, and a submit in
\* the predicted state stays predicted (in runs where nothing raises).
C5_OnlySubmitChangesForm ==
    [][ raised' = "none" =>
            /\ FormState' # FormState => trigger' = "submit"
            /\ (FormState = "predicted" /\ trigger' = "submit") =>
                   FormState' = "predicted"
      ]_vars

\* C5 (amended): the form is predicted only on the screen of a run caused by
\* submit, with the prediction of that run's slider values; every other run
\* leaves it idle; a submit in the predicted state that reaches the form
\* without the scaler or the model raising stays predicted.
C5_PredictedOnlyBySubmit ==
    [][ /\ FormState' = "predicted" =>
            /\ trigger' = "submit"
            /\ prediction' = <<PredictionFor(sliders')>>
        /\ trigger' # "submit" => FormState' = "idle"
        /\ (FormState = "predicted" /\ trigger' = "submit"
                /\ "form" \in screen' /\ raised' \notin PredFaults) =>
            FormState' = "predicted"
      ]_vars
C5_Witness ==
    /\ remembered # <<>>
    /\ FormState = "predicted"
    /\ input_data[1] # remembered[1]

\* C6 (as claimed): a station column that is missing, or present without
\* any value, makes the run report an error and render no dashboard (stated
\* for the runs in which nothing else raises).
EmptyStationColumn ==
    /\ StationColumn
    /\ \A i \in DOMAIN dataset.rows : dataset.rows[i]["station"].k = "nan"
C6_EmptyOrMissingStationFails ==
    (Loaded /\ raised = "none" /\ (~StationColumn \/ EmptyStationColumn)) =>
        /\ screen \cap {"load_error", "station_error"} # {}
        /\ screen \cap Dashboard = {}

\* C6 (amended): a missing station column makes the run report the error
\* and render no dashboard; a station column without any value passes the
\* test of line 17: no error, the selector and the tabs are rendered and the filtered
\* record set is empty.
C6_MissingFailsEmptyRenders ==
    /\ (Loaded /\ ~StationColumn) =>
          /\ screen = {"station_error"}
          /\ screen \cap Dashboard = {}
    /\ (Loaded /\ EmptyStationColumn) =>
          /\ "station_error" \notin screen
          /\ {"selector", "tabs"} \subseteq screen
          /\ filtered_df = <<>>
          /\ "summary" \in screen => metrics[1] = 0
C6_Witness ==
    /\ EmptyStationColumn
    /\ Len(dataset.rows) > 0
    /\ "summary" \in screen
    /\ metrics[1] = 0

\* C7: the vector built on a submit is one row of twelve values, the
\* sliders' values in the order PM10, SO2, NO2, CO, O3, WSPM, RAIN, TEMP,
\* DEWP, PRES, month, hour, each within its range, and the echoed table
\* labels the same positions.
C7_FeatureVector ==
    input_data # <<>> =>
        /\ trigger = "submit"
        /\ Len(input_data) = 1
        /\ Len(input_data[1]) = 12
        /\ \A i \in 1..12 :
              /\ input_data[1][i] = sliders[Features[i].var]
              /\ Features[i].lo <= input_data[1][i]
              /\ input_data[1][i] <= Features[i].hi
        /\ table # <<>> =>
              /\ table[1] = [i \in 1..12 |-> Features[i].label]
              /\ table[2] = input_data[1]
C7_Witness ==
    /\ table # <<>>
    /\ input_data[1][10] = 1100
    /\ input_data[1][11] = 12

\* C8: the summary view shows the row count, the column count and the
\* missing percentage of the rows of the selected station, their first 20
\* rows and their columns with missing values, also after a station change.
C8_SummaryOfFilteredSet ==
    "summary" \in screen =>
        LET n == Cardinality(MatchIdx)
            m == Len(dataset.columns)
        IN  /\ metrics[1] = n
            /\ metrics[2] = m
            /\ metrics[3] = IF n = 0 THEN NaNPct
                            ELSE RoundHalfEven(10000 * MatchNullTotal, n * m)
            /\ sample = [j \in 1..(IF n < 20 THEN n ELSE 20) |-> MatchRows[j]]
            /\ {p[1] : p \in Range(missing)}
                  = {c \in Range(dataset.columns) : MatchNulls(c) > 0}
            /\ \A p \in Range(missing) : p[2] = MatchNulls(p[1])
C8_Witness ==
    /\ trigger = "station"
    /\ "summary" \in screen
    /\ Len(sample) = 20
    /\ metrics[1] > 20
    /\ metrics[1] < Len(dataset.rows)
    /\ missing # <<>>

\* C9 (as claimed): no run caused by an interaction reads the files again,
\* so a load failure is never reported after startup.
C9_LoadedOnce ==
    trigger \in Interactions =>
        /\ read_files = {}
        /\ "load_error" \notin screen

====
